---- MODULE Spec2Model ----
(***************************************************************************)
(* Model of the tube-count solver of wavepack_v1_full/app.py.              *)
(*                                                                         *)
(* Python floats are modelled as decimal floating-point numbers with       *)
(* Digits significant digits and round-half-even after every operation,   *)
(* so every conversion and every formula rounds as the code's does (with   *)
(* a shorter mantissa).  A Python exception raised inside an expression    *)
(* is a value that every later operation of the expression passes on,      *)
(* and a complex number (a negative base raised to a fractional power) is  *)
(* a value on which comparisons and math.log10 raise TypeError.            *)
(***************************************************************************)
EXTENDS Integers, Sequences, FiniteSets, TLC

\* Significant decimal digits kept by a modelled float.
Digits == 3

\* ------------------------------------------------------------------------
\* Float values
\* ------------------------------------------------------------------------

TenToTab == <<1, 10, 100, 1000, 10000, 100000, 1000000, 10000000, 100000000,
              1000000000>>

\* 10^k for k in 0..9.
TenTo(k) == TenToTab[k + 1]

\* The number of decimal digits of the integer a >= 1.
NumDigits(a) ==
  IF a < 10000
  THEN (IF a < 100 THEN (IF a < 10 THEN 1 ELSE 2) ELSE (IF a < 1000 THEN 3 ELSE 4))
  ELSE IF a < 1000000 THEN (IF a < 100000 THEN 5 ELSE 6)
  ELSE IF a < 100000000 THEN (IF a < 10000000 THEN 7 ELSE 8)
  ELSE IF a < 1000000000 THEN 9 ELSE 10

Abs(i) == IF i < 0 THEN -i ELSE i

\* The float m * 10^e (m = 0, or Digits digits in m).
Num(m, e) == [t |-> "f", m |-> m, e |-> e]
\* A raised exception, as the value of the expression that raised it.
Exc(name) == [t |-> name, m |-> 0, e |-> 0]
\* A complex number (Python returns one for a negative float ** fraction).
Cplx == [t |-> "complex", m |-> 0, e |-> 0]
\* A local that holds nothing yet.
Absent == [t |-> "absent", m |-> 0, e |-> 0]

Zero == [t |-> "f", m |-> 0, e |-> 0]

IsNum(x) == x.t = "f"
IsCplx(x) == x.t = "complex"
IsExc(x) == x.t \notin {"f", "complex", "absent"}

\* s * q * 10^e with q of at most Digits digits, or q = 10^Digits after a carry.
Carry(q, s, e) ==
  IF q = TenTo(Digits) THEN Num(s * TenTo(Digits - 1), e + 1) ELSE Num(s * q, e)

\* q + r/10^k rounded to an integer, ties to even (0 <= r < 10^k, k >= 1).
RoundHalfEven(q, r, k) ==
  IF r > 5 * TenTo(k - 1) \/ (r = 5 * TenTo(k - 1) /\ q % 2 = 1) THEN q + 1 ELSE q

\* The float nearest to s * a * 10^e, for a >= 1 of d digits.
NormDigits(a, s, e, d) ==
  IF d <= Digits
  THEN Num(s * a * TenTo(Digits - d), e - (Digits - d))
  ELSE Carry(RoundHalfEven(a \div TenTo(d - Digits), a % TenTo(d - Digits), d - Digits),
             s, e + d - Digits)

NormAbs(a, s, e) == NormDigits(a, s, e, NumDigits(a))

\* The float nearest to n * 10^e, ties to even (n an integer).
Norm(n, e) ==
  IF n = 0 THEN Zero
  ELSE IF n < 0 THEN NormAbs(-n, -1, e) ELSE NormAbs(n, 1, e)

\* A decimal literal of the source, n * 10^e, as the float it denotes.
Lit(n, e) == Norm(n, e)

\* What an operation of two operands yields when an operand is no number.
Lift2(x, y, r) ==
  IF IsExc(x) THEN x
  ELSE IF IsExc(y) THEN y
  ELSE IF IsCplx(x) \/ IsCplx(y) THEN Cplx
  ELSE r

FNeg(x) == IF IsNum(x) THEN Num(-x.m, x.e) ELSE x

FMul(x, y) == Lift2(x, y, Norm(x.m * y.m, x.e + y.e))

\* s * (num / b) * 10^e, rounded once: the quotient's digits and a sticky digit.
DivMag(num, b, s, e) ==
  NormAbs((num \div b) * 10 + (IF num % b = 0 THEN 0 ELSE 1), s, e - 1)

\* x / y; a zero divisor raises ZeroDivisionError.
FDiv(x, y) ==
  IF IsExc(x) THEN x
  ELSE IF IsExc(y) THEN y
  ELSE IF IsNum(y) /\ y.m = 0 THEN Exc("ZeroDivisionError")
  ELSE IF IsCplx(x) \/ IsCplx(y) THEN Cplx
  ELSE IF x.m = 0 THEN Zero
  ELSE DivMag(Abs(x.m) * TenTo(Digits + 1), Abs(y.m),
              IF (x.m < 0) = (y.m < 0) THEN 1 ELSE -1, x.e - y.e - Digits - 1)

\* hi + lo for nonzero floats with hi.e >= lo.e.
AddAligned(hi, lo) ==
  IF hi.e - lo.e > Digits + 1 THEN hi
  ELSE Norm(hi.m * TenTo(hi.e - lo.e) + lo.m, lo.e)

FAdd(x, y) ==
  Lift2(x, y,
    IF x.m = 0 THEN y
    ELSE IF y.m = 0 THEN x
    ELSE IF x.e >= y.e THEN AddAligned(x, y) ELSE AddAligned(y, x))

FSub(x, y) == FAdd(x, FNeg(y))

\* Comparisons of two floats (callers raise TypeError on a complex operand).
FLe(x, y) == FSub(x, y).m <= 0
FLt(x, y) == FSub(x, y).m < 0
FGe(x, y) == FSub(y, x).m <= 0

\* Python's max(x, y): y only when y > x.
FMax(x, y) == Lift2(x, y, IF FLt(x, y) THEN y ELSE x)

\* x / n and x * n for a Python int n in 1..9999 (exact before the rounding).
FDivInt(x, n) ==
  IF ~IsNum(x) THEN x
  ELSE IF n = 0 THEN Exc("ZeroDivisionError")
  ELSE IF x.m = 0 THEN Zero
  ELSE DivMag(Abs(x.m) * TenTo(NumDigits(n) + 1), n, IF x.m < 0 THEN -1 ELSE 1,
              x.e - NumDigits(n) - 1)

FMulInt(x, n) == IF ~IsNum(x) THEN x ELSE Norm(x.m * n, x.e)

\* ------------------------------------------------------------------------
\* math.log10, math.exp, math.sqrt and float ** float
\* ------------------------------------------------------------------------

\* 10^(k/20) * 10^4 for k in 0..20: the table both 10^x and log10 x read.
T20Tab == <<10000, 11220, 12589, 14125, 15849, 17783, 19953, 22387, 25119, 28184,
            31623, 35481, 39811, 44668, 50119, 56234, 63096, 70795, 79433, 89125,
            100000>>

T20(k) == T20Tab[k + 1]

\* log10(u * 10^(e - 4)) for T20(k) <= u < T20(k+1): the table, interpolated.
Log10At(u, e, k) ==
  Norm((e * 2000 + k * 100 + ((u - T20(k)) * 100) \div (T20(k + 1) - T20(k))) * 5, -4)

Log10Mant(u, e) ==
  Log10At(u, e, CHOOSE j \in 0..19 : T20(j) <= u /\ u < T20(j + 1))

\* log10 of a float x > 0.
FLog10(x) == Log10Mant(x.m * TenTo(5 - Digits), x.e + Digits - 1)

\* math.log10(x): TypeError on a complex, ValueError unless x > 0.
MathLog10(x) ==
  IF IsExc(x) THEN x
  ELSE IF IsCplx(x) THEN Exc("TypeError")
  ELSE IF x.m <= 0 THEN Exc("ValueError")
  ELSE FLog10(x)

\* 10^(dec + (idx + r/100)/20)
Exp10At(dec, idx, r) ==
  Norm(T20(idx) + ((T20(idx + 1) - T20(idx)) * r) \div 100, dec - 4)

\* 10^(q/2000): OverflowError above the float range, 0.0 below it.
Exp10Fixed(q) ==
  IF q >= 309 * 2000 THEN Exc("OverflowError")
  ELSE IF q < -324 * 2000 THEN Zero
  ELSE Exp10At((q \div 100) \div 20, (q \div 100) % 20, q % 100)

\* 10 ** x for a float x.
FExp10(x) ==
  IF ~IsNum(x) THEN x
  ELSE IF x.e >= 1 THEN (IF x.m > 0 THEN Exc("OverflowError") ELSE Zero)
  ELSE IF -x.e > 9 THEN Exp10Fixed(IF x.m < 0 THEN -1 ELSE 0)
  ELSE Exp10Fixed((x.m * 2000) \div TenTo(-x.e))

\* math.exp(x) = 10 ** (x * log10(e)).
MathExp(x) == FExp10(FMul(x, Lit(43429, -5)))

\* x ** y for a float y that is no integer: a complex for x < 0.
FPowFrac(x, y) ==
  IF IsExc(x) THEN x
  ELSE IF IsCplx(x) THEN Cplx
  ELSE IF x.m < 0 THEN Cplx
  ELSE IF x.m = 0 THEN Zero
  ELSE FExp10(FMul(y, FLog10(x)))

\* x ** 2
FSquare(x) == FMul(x, x)

\* x ** -2; 0.0 ** -2 raises ZeroDivisionError.
FInvSquare(x) == FDiv(Lit(1, 0), FMul(x, x))

RECURSIVE ISqrt(_, _, _)
\* The integer r in lo..hi with r*r <= n < (r+1)*(r+1).
ISqrt(n, lo, hi) ==
  IF lo = hi THEN lo
  ELSE IF ((lo + hi + 1) \div 2) * ((lo + hi + 1) \div 2) <= n
       THEN ISqrt(n, (lo + hi + 1) \div 2, hi)
       ELSE ISqrt(n, lo, ((lo + hi + 1) \div 2) - 1)

\* sqrt(n) * 10^e for r = floor(sqrt(n)), rounded to nearest.
SqrtRound(n, r, e) == Norm(IF n > r * r + r THEN r + 1 ELSE r, e)

SqrtMag(n, e) == SqrtRound(n, ISqrt(n, 1, TenTo(Digits)), e)

\* math.sqrt(x): ValueError for x < 0.
MathSqrt(x) ==
  IF IsExc(x) THEN x
  ELSE IF IsCplx(x) THEN Exc("TypeError")
  ELSE IF x.m < 0 THEN Exc("ValueError")
  ELSE IF x.m = 0 THEN Zero
  ELSE IF (x.e - (Digits - 1)) % 2 = 0
       THEN SqrtMag(x.m * TenTo(Digits - 1), (x.e - (Digits - 1)) \div 2)
       ELSE SqrtMag(x.m * TenTo(Digits), (x.e - Digits) \div 2)

\* Rounding up as int(sqrt(c)) + 1 would: a perfect square is pushed up too.
CeilFromFloorPlusOne(c, r) == r + 1

\* The least k with k*k >= c, given r = floor(sqrt(c)).
CeilFrom(c, r) == IF r * r = c THEN r ELSE r + 1

\* math.ceil(math.sqrt(c)) for a Python int c >= 0.
CeilSqrt(c) == IF c = 0 THEN 0 ELSE CeilFrom(c, ISqrt(c, 0, c))

\* Floor division c // n in place of math.ceil(c / n).
CeilDivFloor(c, n) == c \div n

\* math.ceil(c / n) for Python ints c >= 0 and n > 0.
CeilDiv(c, n) == (c + n - 1) \div n

\* ------------------------------------------------------------------------
\* Constants and unit conversions
\* ------------------------------------------------------------------------

C0 == Lit(299792458, 0)
PI == Lit(314159265, -8)

in_to_m(x) == FMul(x, Lit(254, -4))
ft_to_m(x) == FMul(x, Lit(3048, -4))
pa_to_psi(x) == FDiv(x, Lit(6894757, -3))
cfm_to_m3s(x) == FMul(x, Lit(47194745, -11))
kgm3_to_lbft3(x) == FDiv(x, Lit(160185, -4))

F_to_C(F) == FDiv(FMul(FSub(F, Lit(32, 0)), Lit(5, 0)), Lit(9, 0))
F_to_K(F) == FAdd(F_to_C(F), Lit(27315, -2))

\* ------------------------------------------------------------------------
\* Material and fluid tables
\* ------------------------------------------------------------------------

MATERIALS ==
  [stainless_304 |-> [name |-> "Stainless 304", density_lbft3 |-> Lit(499, 0),
                      roughness_ft |-> Lit(5, -6), color |-> "#C0C0C0"],
   aluminum_6061 |-> [name |-> "Aluminum 6061-T6", density_lbft3 |-> Lit(169, 0),
                      roughness_ft |-> Lit(15, -7), color |-> "#A9C0DE"],
   copper_c110 |-> [name |-> "Copper C110", density_lbft3 |-> Lit(559, 0),
                    roughness_ft |-> Lit(12, -7), color |-> "#B87333"],
   brass_c360 |-> [name |-> "Brass C360", density_lbft3 |-> Lit(532, 0),
                   roughness_ft |-> Lit(18, -7), color |-> "#D4AF37"],
   carbon_steel |-> [name |-> "Carbon Steel", density_lbft3 |-> Lit(490, 0),
                     roughness_ft |-> Lit(7, -6), color |-> "#6E7074"]]

\* Each *_props returns <<rho, mu>>.
air_props(T_F) ==
  LET T_K == F_to_K(T_F)
      p == Lit(101325, 0)
      R == Lit(28705, -2)
  IN << FDiv(p, FMul(R, T_K)),
        FDiv(FMul(Lit(1458, -9), FPowFrac(T_K, Lit(15, -1))),
             FAdd(T_K, Lit(1104, -1))) >>

water_props(T_F) ==
  LET T_C == F_to_C(T_F)
  IN << FSub(Lit(99984, -2),
             FMul(Lit(7, -2), FSquare(FSub(T_C, Lit(4, 0))))),
        FMul(Lit(1, -3),
             FAdd(FAdd(Lit(1, 0), FMul(Lit(337, -4), FSub(T_C, Lit(20, 0)))),
                  FMul(Lit(22, -5), FSquare(FSub(T_C, Lit(20, 0)))))) >>

diesel_props(T_F) ==
  LET T_C == F_to_C(T_F)
  IN << FSub(Lit(830, 0), FMul(Lit(6, -1), FSub(T_C, Lit(15, 0)))),
        FMul(Lit(25, -4), MathExp(FMul(Lit(-2, -2), FSub(T_C, Lit(20, 0))))) >>

oil_iso46_props(T_F) ==
  LET T_C == F_to_C(T_F)
  IN << FSub(Lit(870, 0), FMul(Lit(65, -2), FSub(T_C, Lit(15, 0)))),
        FMul(Lit(41, -3), MathExp(FMul(Lit(-45, -3), FSub(T_C, Lit(40, 0))))) >>

hydrogen_props(T_F) ==
  LET T_K == F_to_K(T_F)
  IN << FMul(Lit(899, -4), FDiv(Lit(27315, -2), T_K)),
        FMul(Lit(876, -8), FPowFrac(FDiv(T_K, Lit(300, 0)), Lit(7, -1))) >>

nitrogen_props(T_F) ==
  LET T_K == F_to_K(T_F)
  IN << FMul(Lit(125, -2), FDiv(Lit(27315, -2), T_K)),
        FMul(Lit(176, -7), FPowFrac(FDiv(T_K, Lit(300, 0)), Lit(7, -1))) >>

glycol_props(T_F) ==
  LET T_C == F_to_C(T_F)
  IN << FSub(Lit(1110, 0), FMul(Lit(7, -1), FSub(T_C, Lit(20, 0)))),
        FMul(Lit(15, -3), MathExp(FMul(Lit(-4, -2), FSub(T_C, Lit(20, 0))))) >>

\* The table's "func" entries are named here and applied by FluidFunc.
FLUIDS ==
  [air |-> [name |-> "Air", func |-> "air_props"],
   water |-> [name |-> "Water", func |-> "water_props"],
   diesel |-> [name |-> "Diesel", func |-> "diesel_props"],
   oil_iso46 |-> [name |-> "Hydraulic Oil (ISO VG 46)", func |-> "oil_iso46_props"],
   hydrogen |-> [name |-> "Hydrogen", func |-> "hydrogen_props"],
   nitrogen |-> [name |-> "Nitrogen", func |-> "nitrogen_props"],
   glycol |-> [name |-> "Ethylene Glycol", func |-> "glycol_props"]]

\* FLUIDS[fluid]["func"](T_F)
FluidFunc(func, T_F) ==
  CASE func = "air_props" -> air_props(T_F)
    [] func = "water_props" -> water_props(T_F)
    [] func = "diesel_props" -> diesel_props(T_F)
    [] func = "oil_iso46_props" -> oil_iso46_props(T_F)
    [] func = "hydrogen_props" -> hydrogen_props(T_F)
    [] func = "nitrogen_props" -> nitrogen_props(T_F)
    [] func = "glycol_props" -> glycol_props(T_F)

\* ------------------------------------------------------------------------
\* Flow physics functions
\* ------------------------------------------------------------------------

hydraulic_diameter_rect(am, bm) ==
  FDiv(FMul(FMul(Lit(2, 0), am), bm), FAdd(am, bm))

reynolds_number(r, vel, Dh, visc) == FDiv(FMul(FMul(r, vel), Dh), visc)

colebrook_white(Re, rr) ==
  IF IsExc(Re) THEN Re
  ELSE IF IsCplx(Re) THEN Exc("TypeError")
  ELSE IF FLe(Re, Zero) THEN Lit(2, -2)
  ELSE IF FLt(Re, Lit(2300, 0)) THEN FDiv(Lit(64, 0), Re)
  ELSE FInvSquare(
         FMul(Lit(-18, -1),
              MathLog10(FAdd(FPowFrac(FDiv(rr, Lit(37, -1)), Lit(111, -2)),
                             FDiv(Lit(69, -1), Re)))))

darcy_delta_p(f, Lm, Dh, r, vel) ==
  FMul(FMul(f, FDiv(Lm, Dh)), FDiv(FMul(r, FSquare(vel)), Lit(2, 0)))

cutoff_frequency_rect(am) == FDiv(C0, FMul(Lit(2, 0), am))

se_below_cutoff_db(am, Lm, f_hz) ==
  LET fc == cutoff_frequency_rect(am)
      kc == FDiv(FMul(FMul(Lit(2, 0), PI), fc), C0)
      k == FDiv(FMul(FMul(Lit(2, 0), PI), f_hz), C0)
      alpha == MathSqrt(FMax(FSub(FSquare(kc), FSquare(k)), Zero))
  IN IF IsExc(fc) THEN fc
     ELSE IF FGe(f_hz, fc) THEN Zero
     ELSE FMul(FMul(Lit(8686, -3), alpha), Lm)

tube_weight_lbm(ain, bin, tin, Lft, mat) ==
  LET a_out_in == FAdd(ain, FMulInt(tin, 2))
      b_out_in == FAdd(bin, FMulInt(tin, 2))
      A_out_ft2 == FMul(FDiv(a_out_in, Lit(12, 0)), FDiv(b_out_in, Lit(12, 0)))
      A_in_ft2 == FMul(FDiv(ain, Lit(12, 0)), FDiv(bin, Lit(12, 0)))
      wall_area == FMax(Zero, FSub(A_out_ft2, A_in_ft2))
      vol_ft3 == FMul(wall_area, Lft)
  IN FMul(vol_ft3, MATERIALS[mat].density_lbft3)


\* ------------------------------------------------------------------------
\* Requests
\* ------------------------------------------------------------------------

\* The hard cap of the tube-count search.
MaxTubes == 2500

\* A payload holding all ten keys.
Payload(a, b, L, t, c, T, f, mt, vt, dp) ==
  [a_in |-> a, b_in |-> b, L_ft |-> L, t_in |-> t, cfm |-> c, Tmax_F |-> T,
   fluid |-> f, material |-> mt, v_target |-> vt, dP_max |-> dp]

\* The payload p without the keys ks.
Without(p, ks) == [k \in (DOMAIN p) \ ks |-> p[k]]

\* payload.get(key, default)
Get(p, key, default) == IF key \in DOMAIN p THEN p[key] ELSE default

GeoVals == {Lit(-2, 0), Lit(-1, 0), Zero, Lit(1, 0), Lit(2, 0)}

\* Zero, negative and positive geometry, known and unknown material.
GeometryRequests ==
  LET full == { Payload(a, b, L, t, c, Lit(100, 0), "air", mt, Lit(200, 0), Lit(1, 0)) :
                  a \in GeoVals, b \in GeoVals, L \in {Lit(-1, 0), Zero, Lit(3, 0)},
                  t \in {Lit(-1, 0), Zero, Lit(125, -3)},
                  c \in {Lit(100, 0), Lit(1, -3)},
                  mt \in {"stainless_304", "unobtainium"} }
  IN full \cup { Without(p, {"b_in"}) : p \in full }

\* Every fluid and material of the tables, and one identifier outside each.
LookupRequests ==
  { Payload(Lit(2, 0), Lit(2, 0), Lit(3, 0), Lit(125, -3), Lit(100, 0), T, f, mt,
            Lit(200, 0), Lit(1, 0)) :
      T \in {Lit(100, 0), Lit(200, 0)},
      f \in (DOMAIN FLUIDS) \cup {"unobtainium"},
      mt \in (DOMAIN MATERIALS) \cup {"unobtainium"} }

\* The request with no key: every input takes its default.
EmptyPayload == [k \in {} |-> Zero]

\* Flows and limits that end the search at a small count, at a large one, or
\* not at all.
SearchRequests ==
  { Payload(Lit(2, 0), Lit(2, 0), Lit(3, 0), Lit(125, -3), c, Lit(100, 0), f,
            "stainless_304", Lit(200, 0), dp) :
      c \in {Lit(99, 2), Lit(1, 4)}, f \in {"air", "water"},
      dp \in {Lit(1, 0), Lit(1, -2), Lit(1, 9)} }
  \cup
  { Payload(Lit(2, 0), Lit(2, 0), Lit(3, 0), Lit(125, -3), Lit(1, 3), Lit(100, 0), f,
            "stainless_304", vt, dp) :
      f \in {"air", "water"}, vt \in {Lit(200, 0), Lit(10, 0)},
      dp \in {Lit(1, 0), Lit(1, -2), Lit(1, 9)} }
  \cup
  { Payload(Lit(1, 0), Lit(1, 0), Lit(3, 0), Lit(125, -3), c, Lit(100, 0), "air",
            "stainless_304", vt, Lit(1, 9)) :
      c \in {Lit(138, 0), Lit(275, 0)}, vt \in {Lit(330, 0), Lit(331, 0)} }

Requests ==
  GeometryRequests \cup LookupRequests \cup SearchRequests \cup {EmptyPayload}

\* ------------------------------------------------------------------------
\* State
\* ------------------------------------------------------------------------

VARIABLES
  pc,            \* position in calculate() / solve_tube_count()
  payload,       \* the request's JSON object
  a_in, b_in, L_ft, t_in, cfm_total, Tmax_F, fluid, material, v_target, dP_max_psi,
  a_m, b_m, L_m, rho, mu, rho_lbft3, Dh_m, A_inner_m2, rel_rough,
  tube_count, meets, best_dp, best_v,
  v, dP_psi,     \* the loop body's locals, as last assigned
  n_rows, n_cols, \* the source's n and m
  rounded_count, total_weight, SE_db, fc_hz,
  result,        \* the returned record
  exc,           \* the exception solve_tube_count raised ("" for none)
  called,        \* fluid correlations and physics functions evaluated so far
  iterations,    \* loop bodies run so far
  last_candidate \* the tube count the last loop body evaluated

inputs == <<a_in, b_in, L_ft, t_in, cfm_total, Tmax_F, fluid, material, v_target, dP_max_psi>>
derived == <<a_m, b_m, L_m, rho, mu, rho_lbft3, Dh_m, A_inner_m2, rel_rough>>
search == <<tube_count, meets, best_dp, best_v, v, dP_psi, iterations, last_candidate>>
post == <<n_rows, n_cols, rounded_count, total_weight, SE_db, fc_hz>>
vars == <<pc, payload, inputs, derived, search, post, result, exc, called>>

\* A local not yet assigned.
Unset == Absent

Init ==
  /\ pc = "idle"
  /\ payload = EmptyPayload
  /\ a_in = Unset /\ b_in = Unset /\ L_ft = Unset /\ t_in = Unset
  /\ cfm_total = Unset /\ Tmax_F = Unset /\ fluid = "" /\ material = ""
  /\ v_target = Unset /\ dP_max_psi = Unset
  /\ a_m = Unset /\ b_m = Unset /\ L_m = Unset /\ rho = Unset /\ mu = Unset
  /\ rho_lbft3 = Unset /\ Dh_m = Unset /\ A_inner_m2 = Unset /\ rel_rough = Unset
  /\ tube_count = 0 /\ meets = FALSE /\ best_dp = Unset /\ best_v = Unset
  /\ v = Unset /\ dP_psi = Unset
  /\ n_rows = 0 /\ n_cols = 0 /\ rounded_count = 0 /\ total_weight = Unset
  /\ SE_db = <<>> /\ fc_hz = Unset
  /\ result = EmptyPayload
  /\ exc = ""
  /\ called = {}
  /\ iterations = 0
  /\ last_candidate = 0

\* The exception e leaves solve_tube_count and calculate().
Raise(e) == pc' = "raised" /\ exc' = e

\* ------------------------------------------------------------------------
\* calculate() and solve_tube_count(), one action per stretch of lines
\* ------------------------------------------------------------------------

\* calculate(): payload = request.get_json(force=True); solve_tube_count(payload)
Calculate(req) ==
  /\ pc = "idle"
  /\ payload' = req
  /\ pc' = "extract"
  /\ UNCHANGED <<inputs, derived, search, post, result, exc, called>>

\* Extract inputs.
Extract ==
  /\ pc = "extract"
  /\ a_in' = Get(payload, "a_in", Lit(2, 0))
  /\ b_in' = Get(payload, "b_in", a_in')
  /\ L_ft' = Get(payload, "L_ft", Lit(3, 0))
  /\ t_in' = Get(payload, "t_in", Lit(125, -3))
  /\ cfm_total' = Get(payload, "cfm", Lit(100, 0))
  /\ Tmax_F' = Get(payload, "Tmax_F", Lit(100, 0))
  /\ fluid' = Get(payload, "fluid", "air")
  /\ material' = Get(payload, "material", "stainless_304")
  /\ v_target' = Get(payload, "v_target", Lit(200, 0))
  /\ dP_max_psi' = Get(payload, "dP_max", Lit(1, 0))
  /\ pc' = "convert"
  /\ UNCHANGED <<payload, derived, search, post, result, exc, called>>

\* FLUIDS.get(key, FLUIDS["air"])["func"]: an unknown fluid falls back to air.
FluidLookupDefaultAir(key) ==
  IF key \in DOMAIN FLUIDS THEN FLUIDS[key].func ELSE FLUIDS["air"].func

\* FLUIDS[key]["func"], or the KeyError the lookup raises.
FluidLookup(key) == IF key \in DOMAIN FLUIDS THEN FLUIDS[key].func ELSE "KeyError"

\* MATERIALS[key]["roughness_ft"], or the KeyError the lookup raises.
MaterialLookup(key) ==
  IF key \in DOMAIN MATERIALS THEN MATERIALS[key].roughness_ft ELSE Exc("KeyError")

\* Convert key units: the fluid lookup, then the fluid's correlation.
Convert ==
  /\ pc = "convert"
  /\ a_m' = in_to_m(a_in) /\ b_m' = in_to_m(b_in) /\ L_m' = ft_to_m(L_ft)
  /\ IF FluidLookup(fluid) = "KeyError"
     THEN /\ Raise("KeyError")
          /\ UNCHANGED <<rho, mu, rho_lbft3, called>>
     ELSE LET props == FluidFunc(FluidLookup(fluid), Tmax_F)
          IN /\ called' = called \cup {FluidLookup(fluid)}
             /\ IF IsExc(props[1]) \/ IsExc(props[2])
                THEN /\ Raise(IF IsExc(props[1]) THEN props[1].t ELSE props[2].t)
                     /\ UNCHANGED <<rho, mu, rho_lbft3>>
                ELSE /\ rho' = props[1] /\ mu' = props[2]
                     /\ rho_lbft3' = kgm3_to_lbft3(props[1])
                     /\ pc' = "geometry" /\ UNCHANGED exc
  /\ UNCHANGED <<payload, inputs, Dh_m, A_inner_m2, rel_rough, search, post, result>>

\* Derived geometry: the hydraulic diameter, the area, then the material lookup.
Geometry ==
  /\ pc = "geometry"
  /\ LET Dh == hydraulic_diameter_rect(a_m, b_m)
     IN /\ called' = called \cup {"hydraulic_diameter_rect"}
        /\ IF IsExc(Dh)
           THEN /\ Raise(Dh.t)
                /\ UNCHANGED <<Dh_m, A_inner_m2, rel_rough>>
           ELSE /\ Dh_m' = Dh
                /\ A_inner_m2' = FMul(a_m, b_m)
                /\ LET rr == FDiv(FMul(MaterialLookup(material), Lit(3048, -4)), Dh)
                   IN IF IsExc(rr)
                      THEN Raise(rr.t) /\ UNCHANGED rel_rough
                      ELSE /\ rel_rough' = rr
                           /\ pc' = "search" /\ UNCHANGED exc
  /\ UNCHANGED <<payload, inputs, a_m, b_m, L_m, rho, mu, rho_lbft3, search, post, result>>

\* The loop test off by one either way.
WithinCapStrict(k) == k < MaxTubes
WithinCapLoose(k) == k <= MaxTubes + 1

\* The while loop's test.
WithinCap(k) == k <= MaxTubes

\* Start iterating tube count.
StartSearch ==
  /\ pc = "search"
  /\ tube_count' = 1
  /\ meets' = FALSE
  /\ best_dp' = Zero
  /\ best_v' = Zero
  /\ pc' = IF WithinCap(1) THEN "loop" ELSE "round"
  /\ UNCHANGED <<payload, inputs, derived, v, dP_psi, iterations, last_candidate,
                 post, result, exc, called>>

\* The loop body's v and dP_psi for the candidate count k.
LoopBody(k) ==
  LET Q_m3s_each == cfm_to_m3s(FDivInt(cfm_total, k))
      vel == FDiv(Q_m3s_each, A_inner_m2)
      Re == reynolds_number(rho, vel, Dh_m, mu)
      f == colebrook_white(Re, rel_rough)
      dP_pa == darcy_delta_p(f, L_m, Dh_m, rho, vel)
  IN [v |-> vel, dP_psi |-> pa_to_psi(dP_pa)]

\* Check constraints.
Constraints(vel, dP, vt, dPmax) == FLe(vel, ft_to_m(vt)) /\ FLe(dP, dPmax)

\* The count the loop goes on to after a candidate that does not meet.
NextCandidate(k) == k + 1

\* One pass of the while loop, and the test that follows it.
Iterate ==
  /\ pc = "loop"
  /\ LET body == LoopBody(tube_count)
     IN /\ iterations' = iterations + 1
        /\ last_candidate' = tube_count
        /\ called' = called \cup {"reynolds_number", "colebrook_white", "darcy_delta_p"}
        /\ IF IsExc(body.dP_psi)
           THEN /\ Raise(body.dP_psi.t)
                /\ UNCHANGED <<tube_count, meets, best_dp, best_v, v, dP_psi>>
           ELSE /\ v' = body.v /\ dP_psi' = body.dP_psi
                /\ UNCHANGED exc
                /\ IF Constraints(body.v, body.dP_psi, v_target, dP_max_psi)
                   THEN /\ meets' = TRUE
                        /\ best_dp' = body.dP_psi /\ best_v' = body.v
                        /\ pc' = "round"
                        /\ UNCHANGED tube_count
                   ELSE /\ tube_count' = NextCandidate(tube_count)
                        /\ pc' = IF WithinCap(tube_count') THEN "loop" ELSE "round"
                        /\ UNCHANGED <<meets, best_dp, best_v>>
  /\ UNCHANGED <<payload, inputs, derived, post, result>>

\* Round to full rectangular array.
RoundArray ==
  /\ pc = "round"
  /\ n_rows' = CeilSqrt(tube_count)
  /\ n_cols' = CeilDiv(tube_count, n_rows')
  /\ rounded_count' = n_rows' * n_cols'
  /\ pc' = "weight"
  /\ UNCHANGED <<payload, inputs, derived, search, total_weight, SE_db, fc_hz,
                 result, exc, called>>

Weight ==
  /\ pc = "weight"
  /\ total_weight' = FMulInt(tube_weight_lbm(a_in, b_in, t_in, L_ft, material),
                             rounded_count)
  /\ called' = called \cup {"tube_weight_lbm"}
  /\ pc' = "attenuation"
  /\ UNCHANGED <<payload, inputs, derived, search, n_rows, n_cols, rounded_count,
                 SE_db, fc_hz, result, exc>>

\* freqs[j] = 10**(5 + j*(5/100)) for j in range(101), here indexed from 1.
freqs ==
  [j \in 1..101 |->
     FExp10(FAdd(Lit(5, 0), FMulInt(FDiv(Lit(5, 0), Lit(100, 0)), j - 1)))]

\* Attenuation vs frequency.
Attenuation ==
  /\ pc = "attenuation"
  /\ LET se == [j \in 1..101 |-> se_below_cutoff_db(FMax(a_m, b_m), L_m, freqs[j])]
         fc == cutoff_frequency_rect(FMax(a_m, b_m))
     IN /\ called' = called \cup {"se_below_cutoff_db", "cutoff_frequency_rect"}
        /\ IF IsExc(fc)
           THEN Raise(fc.t) /\ UNCHANGED <<SE_db, fc_hz>>
           ELSE /\ SE_db' = se /\ fc_hz' = fc
                /\ pc' = "return" /\ UNCHANGED exc
  /\ UNCHANGED <<payload, inputs, derived, search, n_rows, n_cols, rounded_count,
                 total_weight, result>>

\* The returned record; calculate() hands it to jsonify.
Return ==
  /\ pc = "return"
  /\ result' = [tube_count |-> rounded_count,
                array_dims |-> <<n_rows, n_cols>>,
                velocity_fts |-> FDiv(best_v, Lit(3048, -4)),
                deltaP_psi |-> best_dp,
                total_weight_lbm |-> total_weight,
                Dh_in |-> FDiv(Dh_m, Lit(254, -4)),
                fc_GHz |-> FDiv(fc_hz, Lit(1, 9)),
                freqs |-> freqs,
                SE_db |-> SE_db,
                material_color |-> MATERIALS[material].color,
                a_in |-> a_in, b_in |-> b_in, L_ft |-> L_ft, t_in |-> t_in]
  /\ pc' = "done"
  /\ UNCHANGED <<payload, inputs, derived, search, post, exc, called>>

Next ==
  \/ \E req \in Requests : Calculate(req)
  \/ Extract
  \/ Convert
  \/ Geometry
  \/ StartSearch
  \/ Iterate
  \/ RoundArray
  \/ Weight
  \/ Attenuation
  \/ Return

Spec == Init /\ [][Next]_vars

\* The rounding of lines 203-205 on its own: solve_tube_count at line 202 with
\* each count the loop can leave in tube_count (1..MaxTubes when a candidate
\* met, MaxTubes + 1 when none did).  The rounding reads tube_count only; the
\* other locals are not part of this specification and stay as Init has them.
InitRound ==
  /\ pc = "round"
  /\ payload = EmptyPayload
  /\ a_in = Unset /\ b_in = Unset /\ L_ft = Unset /\ t_in = Unset
  /\ cfm_total = Unset /\ Tmax_F = Unset /\ fluid = "" /\ material = ""
  /\ v_target = Unset /\ dP_max_psi = Unset
  /\ a_m = Unset /\ b_m = Unset /\ L_m = Unset /\ rho = Unset /\ mu = Unset
  /\ rho_lbft3 = Unset /\ Dh_m = Unset /\ A_inner_m2 = Unset /\ rel_rough = Unset
  /\ tube_count \in 1..(MaxTubes + 1)
  /\ meets = (tube_count <= MaxTubes)
  /\ best_dp = Unset /\ best_v = Unset
  /\ v = Unset /\ dP_psi = Unset
  /\ n_rows = 0 /\ n_cols = 0 /\ rounded_count = 0 /\ total_weight = Unset
  /\ SE_db = <<>> /\ fc_hz = Unset
  /\ result = EmptyPayload
  /\ exc = ""
  /\ called = {}
  /\ iterations = IF tube_count <= MaxTubes THEN tube_count ELSE MaxTubes
  /\ last_candidate = iterations

SpecRound == InitRound /\ [][RoundArray]_vars

\* ------------------------------------------------------------------------
\* Properties
\* ------------------------------------------------------------------------

\* Candidate k meets both constraints when the loop body is evaluated at k.
FeasibleAt(k) ==
  LET body == LoopBody(k)
  IN /\ ~IsExc(body.dP_psi)
     /\ Constraints(body.v, body.dP_psi, v_target, dP_max_psi)

\* The search has ended: it left the loop, or an exception left it.
SearchOver ==
  \/ pc = "round"
  \/ pc = "raised" /\ iterations >= 1 /\ "tube_weight_lbm" \notin called

\* The search left the loop at the count the rounding is applied to, that
\* count meets both constraints and no smaller one does.
StoppedAtSmallest ==
  /\ pc = "round" /\ meets
  /\ FeasibleAt(tube_count)
  /\ \A k \in 1..(tube_count - 1) : ~FeasibleAt(k)

\* C1: for every request for which some count n in 1..2500 meets both
\* constraints, the search stops at the smallest such n, and that n is the
\* count the array rounding is applied to.
C1_StopsAtSmallestFeasible ==
  (SearchOver /\ \E k \in 1..MaxTubes : FeasibleAt(k)) => StoppedAtSmallest

\* What does hold of C1: a search that leaves the loop without an exception
\* stops at the smallest feasible count when there is one.
C1_SmallestUnlessRaised ==
  (pc = "round" /\ \E k \in 1..MaxTubes : FeasibleAt(k)) => StoppedAtSmallest

\* The keys of the record a feasible request gets back.
OrdinaryKeys ==
  {"tube_count", "array_dims", "velocity_fts", "deltaP_psi", "total_weight_lbm",
   "Dh_in", "fc_GHz", "freqs", "SE_db", "material_color",
   "a_in", "b_in", "L_ft", "t_in"}

\* C2: when no count in 1..2500 meets both constraints the request does not
\* end in an ordinary result record: it raises, or the record carries a field
\* an ordinary one does not have.
C2_NonConvergenceReported ==
  (pc = "done" /\ ~meets) => DOMAIN result # OrdinaryKeys

\* C3: whenever the search finds a feasible count, the returned record has
\* tube_count <= 2500, velocity_fts <= v_target and deltaP_psi <= dP_max.
C3_ReturnedWithinLimits ==
  (pc = "done" /\ meets) =>
    /\ result.tube_count <= MaxTubes
    /\ FLe(result.velocity_fts, v_target)
    /\ FLe(result.deltaP_psi, dP_max_psi)

\* What does hold of C3: the count and the pressure drop are within their
\* limits, and the velocity is within the limit in the loop's own unit (m/s).
C3_WithinLimitsInternally ==
  (pc = "done" /\ meets) =>
    /\ result.tube_count <= MaxTubes
    /\ FLe(best_v, ft_to_m(v_target))
    /\ FLe(result.deltaP_psi, dP_max_psi)

\* C4: a request whose fluid is not a key of FLUIDS fails with the lookup's
\* KeyError before any fluid correlation or physics function is evaluated,
\* and no result record is returned.
C4_UnknownFluidFailsFirst ==
  (pc \notin {"idle", "extract"} /\ fluid \notin DOMAIN FLUIDS) =>
    /\ pc \in {"convert", "raised"}
    /\ pc = "raised" => exc = "KeyError"
    /\ called = {}
    /\ result = EmptyPayload

C4_Witness ==
  /\ pc = "raised" /\ exc = "KeyError"
  /\ fluid = "unobtainium" /\ material \in DOMAIN MATERIALS
  /\ called = {}

\* C5: a request whose material is not a key of MATERIALS (fluid valid) fails
\* with the lookup's KeyError before any fluid correlation or physics
\* function is evaluated, for every geometry, zero geometry included.
C5_UnknownMaterialFailsFirst ==
  (pc \notin {"idle", "extract"} /\ fluid \in DOMAIN FLUIDS
     /\ material \notin DOMAIN MATERIALS) =>
    /\ pc \in {"convert", "raised"}
    /\ pc = "raised" => exc = "KeyError"
    /\ called = {}

\* One of the geometry inputs is zero or negative.
BadGeometry ==
  \/ FLe(a_in, Zero) \/ FLe(b_in, Zero) \/ FLe(t_in, Zero) \/ FLe(L_ft, Zero)

\* C6: a request with valid fluid and material whose a_in, b_in, t_in or L_ft
\* is zero or negative raises no exception.
C6_BadGeometryNeverRaises ==
  (pc \notin {"idle", "extract"} /\ fluid \in DOMAIN FLUIDS
     /\ material \in DOMAIN MATERIALS /\ BadGeometry) => pc # "raised"

\* C7: for the count c the search leaves in tube_count, the returned
\* array_dims is [rows, cols] with rows = ceil(sqrt(c)) (the rows with
\* (rows-1)^2 < c <= rows^2) and cols = ceil(c / rows) (the cols with
\* (cols-1)*rows < c <= cols*rows), the returned tube_count is rows x cols,
\* which is >= c; c = 100 gives 10 x 10 = 100 and c = 101 gives 11 x 10 = 110.
C7_ArrayDims ==
  pc = "done" =>
    LET c == tube_count
        rows == result.array_dims[1]
        cols == result.array_dims[2]
    IN /\ Len(result.array_dims) = 2
       /\ rows >= 1 /\ (rows - 1) * (rows - 1) < c /\ c <= rows * rows
       /\ cols >= 1 /\ (cols - 1) * rows < c /\ c <= cols * rows
       /\ result.tube_count = rows * cols
       /\ result.tube_count >= c
       /\ c = 100 => result.array_dims = <<10, 10>> /\ result.tube_count = 100
       /\ c = 101 => result.array_dims = <<11, 10>> /\ result.tube_count = 110

C7_Witness ==
  /\ pc = "done" /\ meets /\ tube_count = 101
  /\ result.array_dims = <<11, 10>> /\ result.tube_count = 110

\* The sizes of the square and near-square arrays: k*k and k*(k-1).
NearSquares ==
  {k * k : k \in 1..(MaxTubes + 1)} \cup {k * (k - 1) : k \in 1..(MaxTubes + 1)}

\* C8: for every feasibility count c in 1..2500 the rounded array has
\* rows - cols in {0, 1} and rows x cols is the least integer >= c of the
\* form k*k or k*(k-1) for a positive integer k.
C8_SmallestNearSquare ==
  (pc = "weight" /\ tube_count \in 1..MaxTubes) =>
    /\ n_rows - n_cols \in {0, 1}
    /\ rounded_count = n_rows * n_cols
    /\ rounded_count >= tube_count
    /\ rounded_count \in NearSquares
    /\ \A x \in NearSquares : x >= tube_count => x >= rounded_count

C8_Witness ==
  /\ pc = "weight" /\ tube_count = MaxTubes - 1
  /\ n_rows = n_cols /\ rounded_count = MaxTubes

C10_BoundedLinearSearch ==
  /\ iterations <= MaxTubes
  /\ last_candidate = iterations
  /\ last_candidate <= MaxTubes
  /\ pc = "loop" => tube_count = iterations + 1 /\ tube_count <= MaxTubes

C10_Witness ==
  /\ pc = "round" /\ ~meets
  /\ iterations = MaxTubes /\ last_candidate = MaxTubes

====
